---- MODULE Spec2Model ----
(***************************************************************************)
(* Model of find-locals.py (yugr/Localizer): analyze_reports ingests the   *)
(* linker reports into a Symtab, demangles the symbol names with c++filt,  *)
(* warns about duplicate definitions, collects the symbols nobody imports  *)
(* and prints them.                                                        *)
(*                                                                         *)
(* Python strings are sequences of one-character strings, so that          *)
(* startswith, rfind, slicing, sorting, join and split are computed as the *)
(* code computes them.  Symtab.imports / Symtab.exports (the raw origin    *)
(* lists of lines 93-94, 108, 113) are written but never read by the       *)
(* program and are not part of the model.  Symbol names are non-empty      *)
(* (they are linker symbols).                                              *)
(***************************************************************************)
EXTENDS Integers, Sequences, FiniteSets, TLC

\* ------------------------------------------------------------------ bounds
\* Number of report files in the log directory, at most.
MaxReports == 2
\* Number of {file, name} records over all the reports of a run, at most.
MaxRecords == 2

\* ------------------------------------------------------------- characters
NL == "\n"

\* Code point of a character: Python compares str values by code point.
Ord(c) ==
  CASE c = NL -> 10 [] c = " " -> 32 [] c = "(" -> 40 [] c = ")" -> 41
    [] c = "*" -> 42 [] c = "." -> 46 [] c = "/" -> 47 [] c = "1" -> 49
    [] c = ":" -> 58 [] c = "E" -> 69 [] c = "F" -> 70 [] c = "N" -> 78
    [] c = "P" -> 80 [] c = "Z" -> 90 [] c = "_" -> 95 [] c = "a" -> 97
    [] c = "b" -> 98 [] c = "c" -> 99 [] c = "d" -> 100 [] c = "f" -> 102
    [] c = "g" -> 103 [] c = "h" -> 104 [] c = "i" -> 105 [] c = "l" -> 108
    [] c = "m" -> 109 [] c = "n" -> 110 [] c = "o" -> 111 [] c = "r" -> 114
    [] c = "s" -> 115 [] c = "u" -> 117 [] c = "v" -> 118 [] c = "x" -> 120

Max(S) == CHOOSE x \in S : \A y \in S : y <= x
Min(S) == CHOOSE x \in S : \A y \in S : x <= y

\* a < b on str.
RECURSIVE StrLess(_, _)
StrLess(a, b) ==
  IF a = <<>> THEN b # <<>>
  ELSE IF b = <<>> THEN FALSE
  ELSE IF Head(a) = Head(b) THEN StrLess(Tail(a), Tail(b))
  ELSE Ord(Head(a)) < Ord(Head(b))

\* sorted(S) for a collection S of distinct str values.
RECURSIVE sorted(_)
sorted(S) ==
  IF S = {} THEN <<>>
  ELSE LET m == CHOOSE x \in S : \A y \in S \ {x} : StrLess(x, y)
       IN  <<m>> \o sorted(S \ {m})

\* (org1, name1) < (org2, name2) on tuples of str.
PairLess(p, q) ==
  \/ StrLess(p[1], q[1])
  \/ p[1] = q[1] /\ StrLess(p[2], q[2])

\* sorted(S) for a collection S of distinct (org, name) tuples.
RECURSIVE sorted_pairs(_)
sorted_pairs(S) ==
  IF S = {} THEN <<>>
  ELSE LET m == CHOOSE x \in S : \A y \in S \ {x} : PairLess(x, y)
       IN  <<m>> \o sorted_pairs(S \ {m})

\* s.startswith(p)
startswith(s, p) == Len(s) >= Len(p) /\ SubSeq(s, 1, Len(p)) = p

\* s.rfind(sub): the highest 0-based index where sub occurs, or -1.
rfind(s, sub) ==
  LET I == { i \in 0..(Len(s) - Len(sub)) : SubSeq(s, i + 1, i + Len(sub)) = sub }
  IN  IF I = {} THEN -1 ELSE Max(I)

\* '\n'.join(seq)
RECURSIVE join(_)
join(seq) ==
  IF seq = <<>> THEN <<>>
  ELSE IF Len(seq) = 1 THEN seq[1]
  ELSE seq[1] \o <<NL>> \o join(Tail(seq))

\* s.split("\n")
RECURSIVE split(_)
split(s) ==
  LET I == { i \in 1..Len(s) : s[i] = NL }
  IN  IF I = {} THEN <<s>>
      ELSE <<SubSeq(s, 1, Min(I) - 1)>> \o split(SubSeq(s, Min(I) + 1, Len(s)))

\* s.rstrip("\n")
RECURSIVE rstrip(_)
rstrip(s) ==
  IF s # <<>> /\ s[Len(s)] = NL THEN rstrip(SubSeq(s, 1, Len(s) - 1)) ELSE s

\* ------------------------------------------------------------ the inputs
file_a   == <<"a", ".", "c">>
file_b   == <<"b", ".", "c">>
file_usr == <<"/", "u", "s", "r", "/", "x", ".", "o">>
Files == {file_a, file_b, file_usr}

name_foo  == <<"f", "o", "o">>
name_main == <<"m", "a", "i", "n">>
\* n::h(void (*)())
name_h    == <<"_", "Z", "N", "1", "n", "1", "h", "E", "P", "F", "v", "v", "E">>
Names == {name_foo, name_main, name_h}

\* The header symbol sets of a run: no header directory, or headers that
\* declare foo and h.  index_headers adds both groups of every match of
\* its pattern, one of which is always the empty string.
HeaderSets == { {}, { <<>>, name_foo, <<"h">> } }

None == <<"None">>

\* ------------------------------------------------------------- c++filt
\* What c++filt prints for one line of its input: the demangled form of a
\* mangled name, any other text unchanged.
demangle(line) ==
  CASE line = name_h ->
         <<"n", ":", ":", "h", "(", "v", "o", "i", "d", " ", "(", "*", ")",
           "(", ")", ")">>
    [] OTHER -> line

\* What one call of run(['c++filt'], stdin=...) can do:
\*   "ok"      every line demangled, in order
\*   "ok_nl"   the same with a newline appended at the end
\*   "exit"    c++filt exits with an error and prints nothing (run ignores
\*             the return code, fatal=False)
\*   "short"   the output lacks its last line
\*   "long"    the output has one line more than the input
\*   "absent"  there is no c++filt: subprocess.Popen raises
FiltBehaviours == {"ok", "ok_nl", "exit", "short", "long", "absent"}

\* The out of run(['c++filt'], stdin=stdin) for the behaviours that return.
run_out(behaviour, stdin) ==
  LET lines == split(stdin)
      good  == [i \in 1..Len(lines) |-> demangle(lines[i])]
  IN  CASE behaviour = "ok"    -> join(good)
        [] behaviour = "ok_nl" -> join(good) \o <<NL>>
        [] behaviour = "exit"  -> <<>>
        [] behaviour = "short" -> join(SubSeq(good, 1, Len(good) - 1))
        [] behaviour = "long"  -> join(good \o <<name_foo>>)

\* Lines 140-146: the stem of a demangled name.
FindStem(demangled_name) ==
  LET j  == rfind(demangled_name, <<"(">>)
      d1 == IF j # -1 THEN SubSeq(demangled_name, 1, j) ELSE demangled_name
      k  == rfind(d1, <<":", ":">>)
  IN  IF k # -1 THEN SubSeq(d1, k + 3, Len(d1)) ELSE d1

\* ------------------------------------------------------- Symbol, Symtab
\* Symbol(name): the name is the key of the symbol in Symtab.syms.
Symbol == [demangled_name |-> None, defs |-> {}, uses |-> {}]

\* Off by one: a single definition counts as several.
has_multiple_defs_one(sym) == Cardinality(sym.defs) > 0

has_multiple_defs(sym) == Cardinality(sym.defs) > 1

is_imported(sym) == Cardinality(sym.uses) > 0

is_system_symbol(sym) ==
  \E origin \in sym.defs :
    \/ startswith(origin, <<"/", "u", "s", "r", "/">>)
    \/ startswith(origin, <<"/", "l", "i", "b", "/">>)

\* next(iter(self.defs)): the element a set yields first depends on the
\* hashes of its elements (randomized per process for str); any element of
\* defs can be the one.
first_origin(sym) == sym.defs

empty(t) == DOMAIN t = {}

get_or_create(t, name) ==
  IF name \in DOMAIN t THEN t
  ELSE [n \in DOMAIN t \cup {name} |-> IF n = name THEN Symbol ELSE t[n]]

add_import(t, origin, name) ==
  LET t1 == get_or_create(t, name)
  IN  [t1 EXCEPT ![name].uses = @ \cup {origin}]

\* The origin replaces the definitions recorded so far.
add_export_overwrite(t, origin, name) ==
  LET t1 == get_or_create(t, name)
  IN  [t1 EXCEPT ![name].defs = {origin}]

add_export(t, origin, name) ==
  LET t1 == get_or_create(t, name)
  IN  [t1 EXCEPT ![name].defs = @ \cup {origin}]

\* A global_exports record taken as one more definition.
add_global_export_as_export(t, origin, name) ==
  LET t1 == get_or_create(t, name)
  IN  [t1 EXCEPT ![name].defs = @ \cup {origin}]

\* Lines 125-130: a global_exports record is taken as an import.
add_global_export(t, origin, name) == add_import(t, origin, name)

\* ------------------------------------------------------------- the state
VARIABLES
  VERBOSE,      \* the global VERBOSE (0 or the number of -v)
  header_syms,  \* the header_syms argument of analyze_reports
  syms,         \* symtab.syms: name -> Symbol
  pc,           \* where analyze_reports is
  nreports,     \* the reports opened so far; len(reports) once the loop ended
  nrecords,     \* the records read so far
  gexported,    \* the names read from the global_exports lists so far
  malformed,    \* a report was unreadable or malformed
  filt,         \* what the c++filt call of this run did ("ok" with or
                \* without the newline at the end), "none" before it
  warnings,     \* the warn() calls: <<name, sorted origins>>
  bad_syms,     \* the names of the symbols in bad_syms
  stdout        \* the lines printed

vars == <<VERBOSE, header_syms, syms, pc, nreports, nrecords, gexported,
          malformed, filt, warnings, bad_syms, stdout>>

Init ==
  /\ VERBOSE \in {0, 1}
  /\ header_syms \in HeaderSets
  /\ syms = <<>>
  /\ pc = "open"
  /\ nreports = 0
  /\ nrecords = 0
  /\ gexported = {}
  /\ malformed = FALSE
  /\ filt = "none"
  /\ warnings = <<>>
  /\ bad_syms = {}
  /\ stdout = <<>>

\* ------------------------------------------------ analyze_reports, the loop
\* Line 118-121: the next report is opened, parsed and its exports found.
OpenReport ==
  /\ pc = "open"
  /\ nreports < MaxReports
  /\ nreports' = nreports + 1
  /\ pc' = "exports"
  /\ UNCHANGED <<VERBOSE, header_syms, syms, nrecords, gexported, malformed,
                 filt, warnings, bad_syms, stdout>>

\* Best-effort ingestion: the bad report is skipped and the loop goes on.
RaiseIngest_skip ==
  /\ \/ pc = "open" /\ nreports < MaxReports
     \/ pc \in {"exports", "imports", "global_exports"}
  /\ malformed' = TRUE
  /\ pc' = "open"
  /\ nreports' = IF pc = "open" THEN nreports + 1 ELSE nreports
  /\ UNCHANGED <<VERBOSE, header_syms, syms, nrecords, gexported,
                 filt, warnings, bad_syms, stdout>>

\* Lines 119-130: open or json.load raise on an unreadable or unparsable
\* report, contents[...] on a missing list, s['file'] or s['name'] on a
\* record that lacks the field.  Nothing catches the exception.
RaiseIngest ==
  /\ \/ pc = "open" /\ nreports < MaxReports
     \/ pc \in {"exports", "imports", "global_exports"}
  /\ malformed' = TRUE
  /\ pc' = "failed"
  /\ UNCHANGED <<VERBOSE, header_syms, syms, nreports, nrecords, gexported,
                 filt, warnings, bad_syms, stdout>>

\* Lines 121-122
AddExport ==
  /\ pc = "exports"
  /\ nrecords < MaxRecords
  /\ \E file \in Files, name \in Names : syms' = add_export(syms, file, name)
  /\ nrecords' = nrecords + 1
  /\ UNCHANGED <<VERBOSE, header_syms, pc, nreports, gexported, malformed,
                 filt, warnings, bad_syms, stdout>>

\* Line 123: the exports are exhausted, the imports list is there.
EndExports ==
  /\ pc = "exports"
  /\ pc' = "imports"
  /\ UNCHANGED <<VERBOSE, header_syms, syms, nreports, nrecords, gexported,
                 malformed, filt, warnings, bad_syms, stdout>>

\* Lines 123-124
AddImport ==
  /\ pc = "imports"
  /\ nrecords < MaxRecords
  /\ \E file \in Files, name \in Names : syms' = add_import(syms, file, name)
  /\ nrecords' = nrecords + 1
  /\ UNCHANGED <<VERBOSE, header_syms, pc, nreports, gexported, malformed,
                 filt, warnings, bad_syms, stdout>>

\* Line 125: the imports are exhausted, the global_exports list is there.
EndImports ==
  /\ pc = "imports"
  /\ pc' = "global_exports"
  /\ UNCHANGED <<VERBOSE, header_syms, syms, nreports, nrecords, gexported,
                 malformed, filt, warnings, bad_syms, stdout>>

\* Lines 125-130
AddGlobalExport ==
  /\ pc = "global_exports"
  /\ nrecords < MaxRecords
  /\ \E file \in Files, name \in Names :
       /\ syms' = add_global_export(syms, file, name)
       /\ gexported' = gexported \cup {name}
  /\ nrecords' = nrecords + 1
  /\ UNCHANGED <<VERBOSE, header_syms, pc, nreports, malformed, filt,
                 warnings, bad_syms, stdout>>

\* Line 118: the global_exports are exhausted, on to the next report.
EndGlobalExports ==
  /\ pc = "global_exports"
  /\ pc' = "open"
  /\ UNCHANGED <<VERBOSE, header_syms, syms, nreports, nrecords, gexported,
                 malformed, filt, warnings, bad_syms, stdout>>

\* Lines 118, 132-133: the reports are exhausted; an empty table returns.
EndReports ==
  /\ pc = "open"
  /\ pc' = IF empty(syms) THEN "done" ELSE "demangle"
  /\ UNCHANGED <<VERBOSE, header_syms, syms, nreports, nrecords, gexported,
                 malformed, filt, warnings, bad_syms, stdout>>

\* ----------------------------------------- analyze_reports, after the loop
\* Lines 139-147: the i-th line of the output goes to the i-th name;
\* names[i] raises IndexError when there are more lines than names.
assign_demangled(t, names, lines) ==
  [n \in DOMAIN t |->
     IF \E i \in 1..Len(lines) : i <= Len(names) /\ names[i] = n
     THEN LET i == CHOOSE i \in 1..Len(lines) : i <= Len(names) /\ names[i] = n
          IN  [t[n] EXCEPT !.demangled_name = FindStem(lines[i])]
     ELSE t[n]]

\* Lines 135-147
CollectDemangled ==
  /\ pc = "demangle"
  /\ \E behaviour \in FiltBehaviours :
       /\ filt' = IF behaviour = "ok_nl" THEN "ok" ELSE behaviour
       /\ IF behaviour = "absent"
          THEN /\ pc' = "failed"
               /\ syms' = syms
          ELSE LET names == sorted(DOMAIN syms)
                   out   == rstrip(run_out(behaviour, join(names)))
                   lines == split(out)
               IN  /\ syms' = assign_demangled(syms, names, lines)
                   /\ pc' = IF Len(lines) > Len(names) THEN "failed" ELSE "warn"
  /\ UNCHANGED <<VERBOSE, header_syms, nreports, nrecords, gexported,
                 malformed, warnings, bad_syms, stdout>>

\* Lines 152-159: the symbols the duplicate-definition warning is for.
is_warned(t, name) ==
  /\ has_multiple_defs(t[name])
  /\ name[1] # "_"
  /\ name \notin {name_main}

\* Lines 149-161
WarnDuplicates ==
  /\ pc = "warn"
  /\ warnings' =
       IF VERBOSE # 0
       THEN LET names  == sorted(DOMAIN syms)
                warned == SelectSeq(names, LAMBDA n : is_warned(syms, n))
            IN  [i \in 1..Len(warned) |->
                   <<warned[i], sorted(syms[warned[i]].defs)>>]
       ELSE <<>>
  /\ pc' = "collect"
  /\ UNCHANGED <<VERBOSE, header_syms, syms, nreports, nrecords, gexported,
                 malformed, filt, bad_syms, stdout>>

\* The header symbols are not looked at.
is_bad_no_headers(t, headers, name) ==
  /\ ~is_system_symbol(t[name])
  /\ ~is_imported(t[name])

\* Lines 166-173: the symbols that go to bad_syms.
is_bad(t, headers, name) ==
  /\ ~is_system_symbol(t[name])
  /\ t[name].demangled_name \notin headers
  /\ ~is_imported(t[name])

\* Lines 163-173
CollectUnimported ==
  /\ pc = "collect"
  /\ bad_syms' = { name \in DOMAIN syms : is_bad(syms, header_syms, name) }
  /\ pc' = "print"
  /\ UNCHANGED <<VERBOSE, header_syms, syms, nreports, nrecords, gexported,
                 malformed, filt, warnings, stdout>>

\* Lines 175-183.  A printed line is a record: the title, a symbol with its
\* origin, or the success line with the number of reports.
PrintReport ==
  /\ pc = "print"
  /\ IF bad_syms # {}
     THEN \E org \in [bad_syms -> Files] :
            /\ \A name \in bad_syms : org[name] \in first_origin(syms[name])
            /\ LET rows == sorted_pairs({ <<org[name], name>> : name \in bad_syms })
               IN  stdout' = <<[line |-> "title"]>> \o
                     [i \in 1..Len(rows) |->
                        [line |-> "symbol", name |-> rows[i][2], org |-> rows[i][1]]]
     ELSE stdout' = <<[line |-> "no violations", reports |-> nreports]>>
  /\ pc' = "done"
  /\ UNCHANGED <<VERBOSE, header_syms, syms, nreports, nrecords, gexported,
                 malformed, filt, warnings, bad_syms>>

Next ==
  \/ OpenReport
  \/ RaiseIngest
  \/ AddExport
  \/ EndExports
  \/ AddImport
  \/ EndImports
  \/ AddGlobalExport
  \/ EndGlobalExports
  \/ EndReports
  \/ CollectDemangled
  \/ WarnDuplicates
  \/ CollectUnimported
  \/ PrintReport

Spec == Init /\ [][Next]_vars

\* ---------------------------------------------------------- the claims
\* The symbol is on a line of the candidate list.
Listed(name) ==
  \E i \in 1..Len(stdout) : stdout[i].line = "symbol" /\ stdout[i].name = name

\* The path is under a system-library root.
SystemPath(path) ==
  \/ Len(path) >= 5 /\ SubSeq(path, 1, 5) = <<"/", "u", "s", "r", "/">>
  \/ Len(path) >= 5 /\ SubSeq(path, 1, 5) = <<"/", "l", "i", "b", "/">>

\* The three conditions of candidacy.
Qualifies(name) ==
  /\ \A origin \in syms[name].defs : ~SystemPath(origin)
  /\ syms[name].demangled_name \notin header_syms
  /\ syms[name].uses = {}

\* The classifier passes have run.
AfterWarn == {"collect", "print", "done"}

\* C1: once the report is printed, a symbol of the table is on the candidate
\* list if and only if none of its definition origins is a system path, its
\* canonical name is not a header symbol and its use-origin set is empty.
C1_CandidateIff ==
  pc = "done" => \A name \in DOMAIN syms : Listed(name) <=> Qualifies(name)

\* C1 witness: a report that lists one symbol and leaves out another one,
\* defined under /usr/, and the headers were looked at.
C1_Witness ==
  /\ pc = "done"
  /\ header_syms # {}
  /\ \E name \in DOMAIN syms : Listed(name)
  /\ \E name \in DOMAIN syms :
       /\ ~Listed(name)
       /\ syms[name].uses = {}
       /\ \E origin \in syms[name].defs : SystemPath(origin)

\* C2: a symbol defined in a file and imported from its defining files only,
\* with no global-export record, not a system symbol and not a header
\* symbol, is on the candidate list.
C2_SelfUseIsCandidate ==
  pc = "done" =>
    \A name \in DOMAIN syms :
      ( /\ syms[name].defs # {}
        /\ syms[name].uses # {}
        /\ syms[name].uses \subseteq syms[name].defs
        /\ name \notin gexported
        /\ \A origin \in syms[name].defs : ~SystemPath(origin)
        /\ syms[name].demangled_name \notin header_syms )
      => Listed(name)

\* C3: a name read from a global_exports list is never on the candidate
\* list, and never in bad_syms.
C3_GlobalExportNeverCandidate ==
  \A name \in gexported : ~Listed(name) /\ name \notin bad_syms

\* C3 witness: a report was printed for a table with a globally exported
\* symbol that is defined outside the system paths, is no header symbol and
\* has no use but the one of its global export.
C3_Witness ==
  /\ pc = "done"
  /\ stdout # <<>>
  /\ \E name \in gexported :
       /\ syms[name].defs # {}
       /\ \A origin \in syms[name].defs : ~SystemPath(origin)
       /\ syms[name].demangled_name \notin header_syms
       /\ Cardinality(syms[name].uses) = 1

\* The name has a duplicate-definition warning.
Warned(name) == \E i \in 1..Len(warnings) : warnings[i][1] = name

\* The sequence lists the elements of S once each, in ascending order.
IsSortedListOf(seq, S) ==
  /\ Len(seq) = Cardinality(S)
  /\ { seq[i] : i \in 1..Len(seq) } = S
  /\ \A i, j \in 1..Len(seq) : i < j => StrLess(seq[i], seq[j])

\* The warnings are the ones of the names with two distinct definition
\* origins or more, main and the names that begin with _ left out, each
\* with all the origins of the name in sorted order.
WarnedExactly ==
  /\ \A name \in DOMAIN syms :
       Warned(name) <=> /\ Cardinality(syms[name].defs) >= 2
                        /\ name # name_main
                        /\ Head(name) # "_"
  /\ \A i \in 1..Len(warnings) :
       /\ IsSortedListOf(warnings[i][2], syms[warnings[i][1]].defs)
       /\ \A j \in 1..Len(warnings) : warnings[j][1] = warnings[i][1] => i = j

C5_SuccessLineOrList ==
  pc = "done" =>
    IF \A name \in DOMAIN syms : ~Qualifies(name)
    THEN stdout = <<[line |-> "no violations", reports |-> nreports]>>
    ELSE /\ \A i \in 1..Len(stdout) : stdout[i].line # "no violations"
         /\ \A name \in DOMAIN syms :
              Qualifies(name) =>
                \E i \in 1..Len(stdout) :
                  /\ stdout[i].line = "symbol"
                  /\ stdout[i].name = name
                  /\ stdout[i].org \in syms[name].defs

\* C6: the origin printed for a candidate, which is also its sort key, is
\* the least of its definition origins, and the lines are in ascending
\* order of (origin, name): the list is a function of the table.
C6_LeastOriginReported ==
  pc = "done" =>
    /\ \A i \in 1..Len(stdout) :
         stdout[i].line = "symbol" =>
           \A origin \in syms[stdout[i].name].defs :
             origin = stdout[i].org \/ StrLess(stdout[i].org, origin)
    /\ \A i, j \in 2..Len(stdout) :
         i < j => PairLess(<<stdout[i].org, stdout[i].name>>,
                           <<stdout[j].org, stdout[j].name>>)

\* The records a report can hold, by the list they are in.
RecordOps == {"exports", "imports", "global_exports"} \X Files \X Names

\* The table after the record is ingested.
Ingested(t, r) ==
  CASE r[1] = "exports" -> add_export(t, r[2], r[3])
    [] r[1] = "imports" -> add_import(t, r[2], r[3])
    [] r[1] = "global_exports" -> add_global_export(t, r[2], r[3])

\* C7: the record a step ingests and any other record give the same names,
\* definition origins and use origins in either order; so do all the
\* orders of the records of a run, exchange by exchange.
C7_OrderIndependent ==
  [][ (pc \in {"exports", "imports", "global_exports"} /\ nrecords' # nrecords)
      => \E r \in RecordOps :
           /\ r[1] = pc
           /\ syms' = Ingested(syms, r)
           /\ \A q \in RecordOps :
                Ingested(Ingested(syms, q), r) = Ingested(syms', q) ]_vars

\* C7 witness: two reports went into the table, a definition and a use of
\* the same name among their records.
C7_Witness ==
  /\ pc = "open"
  /\ nreports = 2
  /\ \E name \in DOMAIN syms : syms[name].defs # {} /\ syms[name].uses # {}

\* C8: once a report was found unreadable or malformed the run has failed,
\* and no warning, no candidate line and no success line was emitted.
C8_MalformedAborts ==
  malformed => /\ pc = "failed"
               /\ warnings = <<>>
               /\ bad_syms = {}
               /\ stdout = <<>>

\* C8 witness: the second report was the bad one, after records were read.
C8_Witness ==
  /\ malformed
  /\ nreports = 2
  /\ nrecords >= 1
  /\ ~empty(syms)

\* C9: after a c++filt that is not there, fails or prints another number
\* of lines, the run does not fail and every canonical name is the stem of
\* the raw name.
C9_DemanglerFailureNonFatal ==
  filt \in {"exit", "short", "long", "absent"} =>
    /\ pc # "failed"
    /\ \A name \in DOMAIN syms : syms[name].demangled_name = FindStem(name)

\* The text before the parenthesis that opens the parameter list, reduced
\* to what follows its last scope separator.
BareName(text) ==
  LET I  == { i \in 1..Len(text) : text[i] = "(" }
      d1 == IF I = {} THEN text ELSE SubSeq(text, 1, Min(I) - 1)
      K  == { k \in 1..(Len(d1) - 1) : d1[k] = ":" /\ d1[k + 1] = ":" }
  IN  IF K = {} THEN d1 ELSE SubSeq(d1, Max(K) + 2, Len(d1))

\* C10: after c++filt did its work, the canonical name of every symbol is
\* the bare name of the demangled text of that same symbol.
C10_CanonicalIsBareName ==
  (filt = "ok" /\ pc # "failed") =>
    \A name \in DOMAIN syms :
      syms[name].demangled_name = BareName(demangle(name))

====
